---------------------------- MODULE Spec2Model ----------------------------
(***************************************************************************)
(* Memorify: the entity store (IStorage, in its two implementations        *)
(* DatabaseStorage and MemStorage) and the request handlers registered by  *)
(* registerRoutes, as a state machine.                                     *)
(*                                                                         *)
(* A table is the set of its rows; a row is a record with the columns of   *)
(* the schema that the handlers read or write.  NULL is a column without a *)
(* value.  Every handler is one action under the sequential                *)
(* specifications (Spec, SpecFriends); under the interleaved specification *)
(* (SpecIL) DELETE /api/images/:id is one action per awaited store call.   *)
(***************************************************************************)
EXTENDS Integers, Sequences, FiniteSets

\* ---------------------------------------------------------------- bounds
\* image rows ever inserted
MaxImages == 1
\* group rows ever inserted
MaxGroups == 1
\* group_members rows ever inserted
MaxMemberRows == 2
\* group_members rows ever inserted, a request taken by await included
MaxMemberRowsByAwait == 3
\* share targets of one upload (userIds and groupIds together)
MaxShareTargets == 2
\* friend rows ever inserted
MaxFriendRows == 2
\* notification rows ever inserted by the friend handlers
MaxNotifications == 3
\* image rows of the stores the timeline is computed from
MaxDateImages == 2
\* instants told apart within one calendar month
InstantsPerMonth == 2

\* ------------------------------------------------------- program constants
NULL == 0
\* parseInt of a string without leading digits
NaN == -1
\* the year of instant 0 ('unixepoch', new Date(0))
EpochYear == 1970
\* the divisor of `uploaded_at / 1000` in the timeline queries
MillisPerSecond == 1000

VARIABLES
  impl,           \* which IStorage implementation serves the requests
  images,         \* table images
  files,          \* the uploads directory: the images whose file is on disk
  friends,        \* table friends
  groups,         \* table groups
  groupMembers,   \* table group_members
  imageShares,    \* table image_shares
  notifications,  \* table notifications
  nextId,         \* the next id of every table (AUTOINCREMENT / currentXId)
  res,            \* the request served last and its response
  inflight        \* the request that is between two awaits

vars == <<impl, images, files, friends, groups, groupMembers, imageShares,
          notifications, nextId, res, inflight>>

\* The rows of table users (their ids): registration is outside the handlers
\* modelled, so the table is the same in every state.
Users == {1, 2, 3}
\* An id that names no user row.
NoSuchUser == Cardinality(Users) + 1

Tables == {"image", "friend", "group", "member", "share", "notification"}

Init ==
  /\ impl \in {"db", "mem"}
  /\ images = {}
  /\ files = {}
  /\ friends = {}
  /\ groups = {}
  /\ groupMembers = {}
  /\ imageShares = {}
  /\ notifications = {}
  /\ nextId = [t \in Tables |-> 1]
  /\ res = [op |-> "none", caller |-> NULL, id |-> NULL, user |-> NULL,
            arg |-> "", status |-> 0]
  /\ inflight = [pc |-> "idle", caller |-> NULL, imageId |-> NULL,
                 image |-> {}, groupId |-> NULL]

\* A request (the handler, the session's user, the id in the path, the body's
\* status) and the status code of its response.
Response(op, caller, id, arg, status) ==
  [op |-> op, caller |-> caller, id |-> id, user |-> NULL, arg |-> arg,
   status |-> status]

\* A response to a GET: data names what the body carries besides a message.
DataResponse(op, caller, id, data, status) ==
  [op |-> op, caller |-> caller, id |-> id, user |-> NULL, arg |-> data,
   status |-> status]

\* The tables and the uploads directory.
store ==
  <<impl, images, files, friends, groups, groupMembers, imageShares,
    notifications, nextId>>

\* The middleware that lets every request through.
isAuthenticated_AlwaysNext(op, session, next) == next

\* isAuthenticated: the handler runs for a request with a session; any other
\* request is answered 401 {"message": "Unauthorized"}.
isAuthenticated(op, session, next) ==
  IF session # NULL
  THEN next
  ELSE /\ res' = DataResponse(op, NULL, NULL, "Unauthorized", 401)
       /\ UNCHANGED store

\* A handler that reads the caller's rows and answers with them:
\* GET /api/images, /api/images/by-date, /api/groups, /api/notifications.
ListOwn(op, caller, data) ==
  /\ res' = DataResponse(op, caller, NULL, data, 200)
  /\ UNCHANGED store

\* GET /api/users/search
SearchUsers(caller, hasQuery) ==
  /\ res' = IF hasQuery THEN DataResponse("searchUsers", caller, NULL, "users", 200)
            ELSE DataResponse("searchUsers", caller, NULL, "", 400)
  /\ UNCHANGED store

\* A request on a group's members (:groupId and the user id it names).
MemberResponse(op, caller, id, user, status) ==
  [op |-> op, caller |-> caller, id |-> id, user |-> user, arg |-> "",
   status |-> status]

\* The ids of a set of rows.
Ids(rows) == {r.id : r \in rows}

RECURSIVE SortedSeq(_)
\* The numbers of S in ascending order (a table is read in rowid order, a
\* Map in insertion order, which is the order of the ids).
SortedSeq(S) ==
  IF S = {} THEN <<>>
  ELSE LET m == CHOOSE x \in S : \A y \in S : x <= y
       IN <<m>> \o SortedSeq(S \ {m})

Range(seq) == {seq[k] : k \in DOMAIN seq}

\* PRAGMA foreign_keys = ON: DatabaseStorage rejects a row whose reference
\* names no row; MemStorage's maps check nothing.
ForeignKeysEnforced == impl = "db"

\* ------------------------------------------------------------ notifications

\* createNotification: the row inserted, isRead false.
NotificationRow(userId, type, content, senderId, groupId, imageId, id) ==
  [id |-> id, userId |-> userId, type |-> type, content |-> content,
   senderId |-> senderId, groupId |-> groupId, imageId |-> imageId,
   isRead |-> FALSE]

\* getNotification: the rows with this id (none or one).
getNotification(id) == {n \in notifications : n.id = id}

\* markNotificationAsRead that flips isRead.
markNotificationAsRead_Toggle(id) ==
  {IF n.id = id THEN [n EXCEPT !.isRead = ~@] ELSE n : n \in notifications}

\* markNotificationAsRead: set isRead of the row.
markNotificationAsRead(id) ==
  {IF n.id = id THEN [n EXCEPT !.isRead = TRUE] ELSE n : n \in notifications}

\* markAllNotificationsAsRead without its WHERE clause.
markAllNotificationsAsRead_Everyone(userId) ==
  {[n EXCEPT !.isRead = TRUE] : n \in notifications}

\* markAllNotificationsAsRead: set isRead of the user's rows.
markAllNotificationsAsRead(userId) ==
  {IF n.userId = userId THEN [n EXCEPT !.isRead = TRUE] ELSE n :
     n \in notifications}

\* PUT /api/notifications/:id/read
MarkNotificationAsRead(caller, notificationId) ==
  /\ UNCHANGED <<impl, images, files, friends, groups, groupMembers,
                 imageShares, nextId>>
  /\ IF getNotification(notificationId) = {}
     THEN /\ res' = Response("markNotificationAsRead", caller,
                             notificationId, "", 404)
          /\ UNCHANGED notifications
     ELSE LET notification == CHOOSE n \in getNotification(notificationId) : TRUE
          IN IF notification.userId # caller
             THEN /\ res' = Response("markNotificationAsRead", caller,
                                     notificationId, "", 403)
                  /\ UNCHANGED notifications
             ELSE /\ notifications' = markNotificationAsRead(notificationId)
                  /\ res' = Response("markNotificationAsRead", caller,
                                     notificationId, "", 200)

\* PUT /api/notifications/read-all
MarkAllNotificationsAsRead(caller) ==
  /\ UNCHANGED <<impl, images, files, friends, groups, groupMembers,
                 imageShares, nextId>>
  /\ notifications' = markAllNotificationsAsRead(caller)
  /\ res' = Response("markAllNotificationsAsRead", caller, NULL, "", 200)

\* ------------------------------------------------------------------ friends

\* getFriendship that matches the requested direction only.
getFriendship_OneDirection(requesterId, addresseeId) ==
  {f \in friends :
     f.requesterId = requesterId /\ f.addresseeId = addresseeId}

\* getFriendship: the rows between the two users, in either direction.
getFriendship(requesterId, addresseeId) ==
  {f \in friends :
     \/ (f.requesterId = requesterId /\ f.addresseeId = addresseeId)
     \/ (f.requesterId = addresseeId /\ f.addresseeId = requesterId)}

\* getFriendRequest: the rows with this id (none or one).
getFriendRequest(id) == {f \in friends : f.id = id}

\* createFriend: the row inserted, status pending.
FriendRow(requesterId, addresseeId, id) ==
  [id |-> id, requesterId |-> requesterId, addresseeId |-> addresseeId,
   status |-> "pending"]

\* updateFriendRequest that stores accepted whatever the status given.
updateFriendRequest_AlwaysAccepted(id, status) ==
  {IF f.id = id THEN [f EXCEPT !.status = "accepted"] ELSE f : f \in friends}

\* updateFriendRequest: table friends with the status of row id set.
updateFriendRequest(id, status) ==
  {IF f.id = id THEN [f EXCEPT !.status = status] ELSE f : f \in friends}

\* POST /api/friends/request: the two rejections that precede the insert.
IsSelfRequest(requesterId, addresseeId) == requesterId = addresseeId

\* The duplicate check that lets a declined request be sent again.
FriendRequestExists_IgnoreDeclined(requesterId, addresseeId) ==
  \E f \in getFriendship(requesterId, addresseeId) : f.status # "declined"

FriendRequestExists(requesterId, addresseeId) ==
  getFriendship(requesterId, addresseeId) # {}

\* PUT /api/friends/requests/:id: the body's status is one of the two allowed.
ValidStatus(status) == status \in {"accepted", "declined"}

\* The authorization that lets either party of the request respond.
IsAddressee_OrRequester(request, userId) ==
  request.addresseeId = userId \/ request.requesterId = userId

\* PUT /api/friends/requests/:id: the caller is the request's addressee.
IsAddressee(request, userId) == request.addresseeId = userId

\* getUser: the user row with this id, undefined when there is none.
getUser(id) == IF id \in Users THEN id ELSE NULL

\* An entry of a friends listing: the friends row and the user attached.
FriendWithUser(f, user) ==
  [id |-> f.id, requesterId |-> f.requesterId, addresseeId |-> f.addresseeId,
   status |-> f.status, user |-> user]

\* getFriendRequests: the pending rows addressed to the user, each with its
\* requester.
getFriendRequests(userId) ==
  {FriendWithUser(f, getUser(f.requesterId)) :
     f \in {g \in friends : g.addresseeId = userId /\ g.status = "pending"}}

\* getUserFriends that finds only the rows the user requested.
getUserFriends_RequesterOnly(userId) ==
  {FriendWithUser(f, getUser(f.addresseeId)) :
     f \in {g \in friends : g.requesterId = userId /\ g.status = "accepted"}}

\* getUserFriends: the accepted rows of the user in either role, each with
\* the other party.
getUserFriends(userId) ==
  {FriendWithUser(f, getUser(IF f.requesterId = userId THEN f.addresseeId
                             ELSE f.requesterId)) :
     f \in {g \in friends :
              (g.requesterId = userId \/ g.addresseeId = userId)
              /\ g.status = "accepted"}}

\* GET /api/friends
GetFriends(caller) ==
  /\ res' = DataResponse("getFriends", caller, NULL, "friends", 200)
  /\ UNCHANGED <<impl, images, files, friends, groups, groupMembers,
                 imageShares, notifications, nextId>>

\* GET /api/friends/requests
GetFriendRequests(caller) ==
  /\ res' = DataResponse("getFriendRequests", caller, NULL, "requests", 200)
  /\ UNCHANGED <<impl, images, files, friends, groups, groupMembers,
                 imageShares, notifications, nextId>>

\* POST /api/friends/request
SendFriendRequest(caller, addresseeId) ==
  /\ UNCHANGED <<impl, images, files, groups, groupMembers, imageShares>>
  /\ IF IsSelfRequest(caller, addresseeId) \/ FriendRequestExists(caller, addresseeId)
     THEN /\ res' = Response("sendFriendRequest", caller, addresseeId, "", 400)
          /\ UNCHANGED <<friends, notifications, nextId>>
     ELSE IF ForeignKeysEnforced /\ addresseeId \notin Users
     THEN \* the insert violates friends.addressee_id -> users.id and throws
          /\ res' = Response("sendFriendRequest", caller, addresseeId, "", 500)
          /\ UNCHANGED <<friends, notifications, nextId>>
     ELSE /\ nextId["friend"] <= MaxFriendRows
          /\ nextId["notification"] <= MaxNotifications
          /\ friends' = friends \cup
                {FriendRow(caller, addresseeId, nextId["friend"])}
          /\ notifications' = notifications \cup
                {NotificationRow(addresseeId, "friend_request", "sent", caller,
                                 NULL, NULL, nextId["notification"])}
          /\ nextId' = [nextId EXCEPT !["friend"] = @ + 1,
                                      !["notification"] = @ + 1]
          /\ res' = Response("sendFriendRequest", caller, addresseeId, "", 201)

\* PUT /api/friends/requests/:id
RespondFriendRequest(caller, requestId, status) ==
  /\ UNCHANGED <<impl, images, files, groups, groupMembers, imageShares>>
  /\ IF ~ValidStatus(status)
     THEN /\ res' = Response("respondFriendRequest", caller, requestId, status, 400)
          /\ UNCHANGED <<friends, notifications, nextId>>
     ELSE IF getFriendRequest(requestId) = {}
     THEN /\ res' = Response("respondFriendRequest", caller, requestId, status, 404)
          /\ UNCHANGED <<friends, notifications, nextId>>
     ELSE LET request == CHOOSE f \in getFriendRequest(requestId) : TRUE IN
          IF ~IsAddressee(request, caller)
          THEN /\ res' = Response("respondFriendRequest", caller, requestId, status, 403)
               /\ UNCHANGED <<friends, notifications, nextId>>
          ELSE /\ nextId["notification"] <= MaxNotifications
               /\ friends' = updateFriendRequest(requestId, status)
               /\ notifications' = notifications \cup
                     {NotificationRow(request.requesterId, "friend_request", status,
                                      caller, NULL, NULL, nextId["notification"])}
               /\ nextId' = [nextId EXCEPT !["notification"] = @ + 1]
               /\ res' = Response("respondFriendRequest", caller, requestId, status, 200)

\* NotificationDropdown: the notifications shown with Accept and Decline,
\* among those GET /api/notifications gives the user: friend_request rows
\* whose content names neither answer.
FriendRequestActions(userId) ==
  {n \in notifications :
     /\ n.userId = userId
     /\ n.type = "friend_request"
     /\ n.content \notin {"accepted", "declined"}}

\* handleFriendRequest(notification.senderId!, status): a click on Accept or
\* Decline of a notification, and the request it sends; its first argument
\* is the id put into PUT /api/friends/requests/:id.
handleFriendRequest(caller, notification, status) ==
  RespondFriendRequest(caller, notification.senderId, status)

DoSendFriendRequest ==
  \E caller \in Users, addresseeId \in Users \cup {NoSuchUser} :
    SendFriendRequest(caller, addresseeId) /\ UNCHANGED inflight

DoRespondFriendRequest ==
  \E caller \in Users, requestId \in 1..nextId["friend"],
     status \in {"accepted", "declined", "blocked"} :
    RespondFriendRequest(caller, requestId, status) /\ UNCHANGED inflight

\* ------------------------------------------------------------------- groups

\* getGroup: the rows with this id; the method throws when there is none.
getGroup(id) == {g \in groups : g.id = id}

\* createGroup: the row inserted.
GroupRow(createdBy, id) == [id |-> id, createdBy |-> createdBy]

\* addGroupMember: the row inserted.
MemberRow(groupId, userId, id) ==
  [id |-> id, groupId |-> groupId, userId |-> userId]

\* isGroupMember that also admits the group's creator without a row.
isGroupMember_OrCreator(groupId, userId) ==
  \/ \E m \in groupMembers : m.groupId = groupId /\ m.userId = userId
  \/ \E g \in groups : g.id = groupId /\ g.createdBy = userId

\* isGroupMember: some membership row joins the user and the group.
isGroupMember(groupId, userId) ==
  \E m \in groupMembers : m.groupId = groupId /\ m.userId = userId

\* DatabaseStorage.getGroupMembers: the users rows whose id is in the
\* group's membership rows (inArray: each user once, in users order).
DatabaseStorage_getGroupMembers(groupId) ==
  SortedSeq({u \in Users : isGroupMember(groupId, u)})

\* MemStorage.getGroupMembers: one entry per membership row, in the rows'
\* order, without the rows whose user is missing (filter(Boolean)).
MemStorage_getGroupMembers(groupId) ==
  LET rows == {m \in groupMembers : m.groupId = groupId /\ m.userId \in Users}
      order == SortedSeq(Ids(rows))
  IN [k \in DOMAIN order |->
        (CHOOSE m \in rows : m.id = order[k]).userId]

getGroupMembers(groupId) ==
  IF impl = "db" THEN DatabaseStorage_getGroupMembers(groupId)
  ELSE MemStorage_getGroupMembers(groupId)

\* DatabaseStorage.removeGroupMember: every matching row is deleted.
DatabaseStorage_removeGroupMember(groupId, userId) ==
  {m \in groupMembers : ~(m.groupId = groupId /\ m.userId = userId)}

\* MemStorage.removeGroupMember: the first matching row is deleted.
MemStorage_removeGroupMember(groupId, userId) ==
  LET rows == {m \in groupMembers : m.groupId = groupId /\ m.userId = userId}
  IN IF rows = {} THEN groupMembers
     ELSE groupMembers \ {CHOOSE m \in rows : \A n \in rows : m.id <= n.id}

removeGroupMember(groupId, userId) ==
  IF impl = "db" THEN DatabaseStorage_removeGroupMember(groupId, userId)
  ELSE MemStorage_removeGroupMember(groupId, userId)

\* DELETE /api/groups/:groupId/members/:userId that lets any member of the
\* group remove anyone.
MayRemoveMember_AnyMember(group, memberIdToRemove, currentUserId) ==
  memberIdToRemove = currentUserId \/ isGroupMember(group.id, currentUserId)

\* DELETE /api/groups/:groupId/members/:userId: a member removes themself,
\* the group's creator removes anyone.
MayRemoveMember(group, memberIdToRemove, currentUserId) ==
  ~(memberIdToRemove # currentUserId /\ group.createdBy # currentUserId)

\* GET /api/groups/:id
GetGroup(caller, groupId) ==
  /\ UNCHANGED <<impl, images, files, friends, groups, groupMembers,
                 imageShares, notifications, nextId>>
  /\ IF ~isGroupMember(groupId, caller)
     THEN res' = DataResponse("getGroup", caller, groupId, "", 403)
     ELSE IF getGroup(groupId) = {}
     THEN \* getGroupWithMembers returns undefined
          res' = DataResponse("getGroup", caller, groupId, "", 404)
     ELSE res' = DataResponse("getGroup", caller, groupId, "group", 200)

\* GET /api/groups/:id/images
GetGroupImages(caller, groupId) ==
  /\ UNCHANGED <<impl, images, files, friends, groups, groupMembers,
                 imageShares, notifications, nextId>>
  /\ IF ~isGroupMember(groupId, caller)
     THEN res' = DataResponse("getGroupImages", caller, groupId, "", 403)
     ELSE res' = DataResponse("getGroupImages", caller, groupId, "images", 200)

\* POST /api/groups
CreateGroup(caller) ==
  /\ nextId["group"] <= MaxGroups
  /\ nextId["member"] <= MaxMemberRows
  /\ groups' = groups \cup {GroupRow(caller, nextId["group"])}
  /\ groupMembers' = groupMembers \cup
        {MemberRow(nextId["group"], caller, nextId["member"])}
  /\ nextId' = [nextId EXCEPT !["group"] = @ + 1, !["member"] = @ + 1]
  /\ res' = Response("createGroup", caller, nextId["group"], "", 201)
  /\ UNCHANGED <<impl, images, files, friends, imageShares, notifications>>

\* The invitation addressed to the caller instead of the user added.
GroupInvite_ToCaller(caller, groupId, userId, id) ==
  NotificationRow(caller, "group_invite", "added", caller, groupId, NULL, id)

\* POST /api/groups/:id/members: the notification for the invited user.
GroupInvite(caller, groupId, userId, id) ==
  NotificationRow(userId, "group_invite", "added", caller, groupId, NULL, id)

\* POST /api/groups/:id/members
AddGroupMember(caller, groupId, userId) ==
  /\ UNCHANGED <<impl, images, files, friends, groups, imageShares>>
  /\ IF ~isGroupMember(groupId, caller)
     THEN /\ res' = MemberResponse("addGroupMember", caller, groupId, userId, 403)
          /\ UNCHANGED <<groupMembers, notifications, nextId>>
     ELSE IF isGroupMember(groupId, userId)
     THEN /\ res' = MemberResponse("addGroupMember", caller, groupId, userId, 400)
          /\ UNCHANGED <<groupMembers, notifications, nextId>>
     ELSE IF ForeignKeysEnforced /\ (userId \notin Users \/ getGroup(groupId) = {})
     THEN \* the insert violates a foreign key of group_members and throws
          /\ res' = MemberResponse("addGroupMember", caller, groupId, userId, 500)
          /\ UNCHANGED <<groupMembers, notifications, nextId>>
     ELSE /\ nextId["member"] <= MaxMemberRows
          /\ groupMembers' = groupMembers \cup
                {MemberRow(groupId, userId, nextId["member"])}
          /\ IF getGroup(groupId) = {}
             THEN \* getGroup throws after the insert
                  /\ res' = MemberResponse("addGroupMember", caller, groupId, userId, 500)
                  /\ nextId' = [nextId EXCEPT !["member"] = @ + 1]
                  /\ UNCHANGED notifications
             ELSE /\ notifications' = notifications \cup
                        {GroupInvite(caller, groupId, userId,
                                     nextId["notification"])}
                  /\ nextId' = [nextId EXCEPT !["member"] = @ + 1,
                                              !["notification"] = @ + 1]
                  /\ res' = MemberResponse("addGroupMember", caller, groupId, userId, 201)

\* DELETE /api/groups/:groupId/members/:userId
RemoveGroupMember(caller, groupId, memberIdToRemove) ==
  /\ UNCHANGED <<impl, images, files, friends, groups, imageShares,
                 notifications, nextId>>
  /\ IF getGroup(groupId) = {}
     THEN \* getGroup throws: the handler's catch answers 500
          /\ res' = MemberResponse("removeGroupMember", caller, groupId,
                                   memberIdToRemove, 500)
          /\ UNCHANGED groupMembers
     ELSE LET group == CHOOSE g \in getGroup(groupId) : TRUE IN
          IF ~MayRemoveMember(group, memberIdToRemove, caller)
          THEN /\ res' = MemberResponse("removeGroupMember", caller, groupId,
                                        memberIdToRemove, 403)
               /\ UNCHANGED groupMembers
          ELSE /\ groupMembers' = removeGroupMember(groupId, memberIdToRemove)
               /\ res' = MemberResponse("removeGroupMember", caller, groupId,
                                        memberIdToRemove, 200)

\* ------------------------------------------------------------------- images

\* getImage: the rows with this id (none or one).
getImage(id) == {i \in images : i.id = id}

\* images row with its uploaded_at column.
DatedImageRow(userId, id, uploadedAt) ==
  [id |-> id, userId |-> userId, uploadedAt |-> uploadedAt]

\* DatabaseStorage.userHasImageAccess
DatabaseStorage_userHasImageAccess(userId, imageId) ==
  LET userGroupIds == {m.groupId : m \in {n \in groupMembers : n.userId = userId}}
  IN \/ \E i \in images : i.id = imageId /\ i.userId = userId
     \/ \E s \in imageShares : s.imageId = imageId /\ s.userId = userId
     \/ /\ userGroupIds # {}
        /\ \E s \in imageShares : s.imageId = imageId /\ s.groupId \in userGroupIds

\* MemStorage.userHasImageAccess
MemStorage_userHasImageAccess(userId, imageId) ==
  LET userGroupIds == {m.groupId : m \in {n \in groupMembers : n.userId = userId}}
  IN \/ \E s \in imageShares : s.imageId = imageId /\ s.userId = userId
     \/ \E s \in imageShares :
          s.imageId = imageId /\ s.groupId # NULL /\ s.groupId \in userGroupIds

\* The access predicate with a group share admitting whoever asks, member
\* of the group or not.
userHasImageAccess_AnyGroupShare(userId, imageId) ==
  \/ \E s \in imageShares : s.imageId = imageId /\ s.userId = userId
  \/ \E s \in imageShares : s.imageId = imageId /\ s.groupId \in Ids(groups)

userHasImageAccess(userId, imageId) ==
  IF impl = "db" THEN DatabaseStorage_userHasImageAccess(userId, imageId)
  ELSE MemStorage_userHasImageAccess(userId, imageId)

\* SQL `a <> b`, which `ne(column, null)` is rendered as: true only when
\* neither side is NULL and the two differ.
SqlNe(a, b) == a # NULL /\ b # NULL /\ a # b

\* JavaScript's truthiness of an id: null, NaN and 0 are falsy.
Truthy(v) == v # NULL /\ v # NaN

\* DatabaseStorage.getImageWithShares: the userIds and groupIds of the
\* image's shares selected with ne(..., null), filtered with Boolean, then
\* the users and groups rows whose id is among them.
DatabaseStorage_getImageWithShares(imageId) ==
  LET userShares == {s \in imageShares :
                       s.imageId = imageId /\ SqlNe(s.userId, NULL)}
      userIds == {s.userId : s \in {t \in userShares : Truthy(t.userId)}}
      groupShares == {s \in imageShares :
                        s.imageId = imageId /\ SqlNe(s.groupId, NULL)}
      groupIds == {s.groupId : s \in {t \in groupShares : Truthy(t.groupId)}}
  IN [found |-> getImage(imageId) # {},
      users |-> IF getImage(imageId) = {} THEN {}
                ELSE {u \in Users : u \in userIds},
      groups |-> IF getImage(imageId) = {} THEN {}
                 ELSE {g \in groups : g.id \in groupIds}]

\* MemStorage.getImageWithShares: the truthy userIds and groupIds of the
\* image's shares, each looked up in usersStore and groupsStore.
MemStorage_getImageWithShares(imageId) ==
  LET shares == {s \in imageShares : s.imageId = imageId}
      userIds == {s.userId : s \in {t \in shares : Truthy(t.userId)}}
      groupIds == {s.groupId : s \in {t \in shares : Truthy(t.groupId)}}
  IN [found |-> getImage(imageId) # {},
      users |-> IF getImage(imageId) = {} THEN {}
                ELSE {IF id \in Users THEN id ELSE NULL : id \in userIds},
      groups |-> IF getImage(imageId) = {} THEN {}
                 ELSE {IF getGroup(id) # {}
                       THEN CHOOSE g \in getGroup(id) : TRUE
                       ELSE \* what Map.get gives without an entry
                            [id |-> NULL, createdBy |-> NULL] :
                         id \in groupIds}]

getImageWithShares(imageId) ==
  IF impl = "db" THEN DatabaseStorage_getImageWithShares(imageId)
  ELSE MemStorage_getImageWithShares(imageId)

\* deleteImage: what each of its three deletions leaves of its table.
SharesWithoutImage(id) == {s \in imageShares : s.imageId # id}

\* deleteImage that leaves the image's notifications in place.
NotificationsWithoutImage_Kept(id) == notifications

NotificationsWithoutImage(id) == {n \in notifications : n.imageId # id}

ImagesWithoutImage(id) == {i \in images : i.id # id}

\* GET /api/images/:id with the access predicate alone deciding.
CanViewImage_AccessOnly(image, userId) == userHasImageAccess(userId, image.id)

\* GET /api/images/:id: the owner, or a user userHasImageAccess admits.
CanViewImage(image, userId) ==
  image.userId = userId \/ userHasImageAccess(userId, image.id)

\* DELETE /api/images/:id that admits whoever may see the image.
IsOwner_OrHasAccess(image, userId) ==
  image.userId = userId \/ userHasImageAccess(userId, image.id)

\* DELETE /api/images/:id: the caller owns the image.
IsOwner(image, userId) == image.userId = userId

\* The store while POST /api/images shares the new image: the two tables it
\* inserts into, their next ids, and whether no store call has thrown.
Sharing(shares, notifs, nShare, nNotif, ok) ==
  [shares |-> shares, notifs |-> notifs, nShare |-> nShare, nNotif |-> nNotif,
   ok |-> ok]

Thrown(st) == [st EXCEPT !.ok = FALSE]

WithShare(st, imageId, userId, groupId) ==
  [st EXCEPT !.shares = @ \cup {[id |-> st.nShare, imageId |-> imageId,
                                  userId |-> userId, groupId |-> groupId]},
             !.nShare = @ + 1]

WithNotification(st, userId, content, senderId, groupId, imageId) ==
  [st EXCEPT !.notifs = @ \cup
                {NotificationRow(userId, "image_share", content, senderId,
                                 groupId, imageId, st.nNotif)},
             !.nNotif = @ + 1]

\* A number as the store keeps it: SQLite binds NaN as NULL, a Map keeps it.
Stored(v) == IF impl = "db" /\ v = NaN THEN NULL ELSE v

\* The insert violates a foreign key (a NULL reference violates none).
ViolatesForeignKey(v, ids) ==
  ForeignKeysEnforced /\ Stored(v) # NULL /\ v \notin ids

\* POST /api/images, "Share with users": one pass of the loop.
ShareWithUser(st, caller, imageId, userId) ==
  IF ViolatesForeignKey(userId, Users)
  THEN Thrown(st)
  ELSE IF impl = "db" /\ Stored(userId) = NULL
  THEN \* the share row is in, createNotification throws on user_id, which
       \* is NOT NULL (SQLite only)
       Thrown(WithShare(st, imageId, Stored(userId), NULL))
  ELSE WithNotification(WithShare(st, imageId, Stored(userId), NULL),
                        userId, "shared_with_you", caller, NULL, imageId)

RECURSIVE ShareWithUsers(_, _, _, _)
ShareWithUsers(st, caller, imageId, userIds) ==
  IF userIds = <<>> \/ ~st.ok THEN st
  ELSE ShareWithUsers(ShareWithUser(st, caller, imageId, Head(userIds)),
                      caller, imageId, Tail(userIds))

RECURSIVE NotifyMembers(_, _, _, _, _)
\* POST /api/images: the loop over the group's members.
NotifyMembers(st, members, caller, imageId, groupId) ==
  IF members = <<>> THEN st
  ELSE NotifyMembers(
         IF Head(members) # caller
         THEN WithNotification(st, Head(members), "shared_in_group", caller,
                               groupId, imageId)
         ELSE st,
         Tail(members), caller, imageId, groupId)

\* POST /api/images, "Share with groups": one pass of the loop.
ShareWithGroup(st, caller, imageId, groupId) ==
  IF ViolatesForeignKey(groupId, Ids(groups))
  THEN Thrown(st)
  ELSE IF getGroup(groupId) = {}
  THEN \* the share row is in, no member is found, getGroup throws
       Thrown(WithShare(st, imageId, NULL, Stored(groupId)))
  ELSE NotifyMembers(WithShare(st, imageId, NULL, groupId),
                     getGroupMembers(groupId), caller, imageId, groupId)

RECURSIVE ShareWithGroups(_, _, _, _)
ShareWithGroups(st, caller, imageId, groupIds) ==
  IF groupIds = <<>> \/ ~st.ok THEN st
  ELSE ShareWithGroups(ShareWithGroup(st, caller, imageId, Head(groupIds)),
                       caller, imageId, Tail(groupIds))

\* POST /api/images
UploadImage(caller, hasFile, userIds, groupIds) ==
  /\ UNCHANGED <<impl, friends, groups, groupMembers>>
  /\ IF ~hasFile
     THEN /\ res' = Response("uploadImage", caller, NULL, "", 400)
          /\ UNCHANGED <<images, files, imageShares, notifications, nextId>>
     ELSE /\ nextId["image"] <= MaxImages
          /\ LET imageId == nextId["image"]
                 st == ShareWithGroups(
                         ShareWithUsers(
                           Sharing(imageShares, notifications, nextId["share"],
                                   nextId["notification"], TRUE),
                           caller, imageId, userIds),
                         caller, imageId, groupIds)
             IN /\ files' = files \cup {imageId}
                /\ images' = images \cup {DatedImageRow(caller, imageId, 0)}
                /\ imageShares' = st.shares
                /\ notifications' = st.notifs
                /\ nextId' = [nextId EXCEPT !["image"] = @ + 1,
                                            !["share"] = st.nShare,
                                            !["notification"] = st.nNotif]
                /\ res' = Response("uploadImage", caller, imageId, "",
                                   IF st.ok THEN 201 ELSE 500)

\* ---------------------------------------------------------------- timeline

\* An upload instant counts the seconds from the epoch; a month of the
\* model's calendar has InstantsPerMonth of them.  Column uploaded_at is
\* integer(..., {mode: 'timestamp'}): it holds the instant in seconds, which
\* is also Date.getTime() / 1000 of the Date that MemStorage keeps.

\* `datetime(uploaded_at / 1000, 'unixepoch')`: the instant that SQLite reads
\* from the column, the division being SQLite's integer division.
UnixEpoch(uploadedAt) == uploadedAt \div MillisPerSecond

\* strftime('%Y', ...) and Date.getFullYear.
FullYear(t) == EpochYear + (t \div InstantsPerMonth) \div 12

\* strftime('%m', ...): the month from 1 to 12.
StrftimeMonth(t) == ((t \div InstantsPerMonth) % 12) + 1

\* Date.getMonth: the month from 0 to 11.
DateGetMonth(t) == (t \div InstantsPerMonth) % 12

RECURSIVE SortedDesc(_)
\* The pairs of S in the order of `ORDER BY strftime('%Y-%m', ...) DESC`,
\* which is that of the comparator of MemStorage's sort: later year first,
\* then later month.
SortedDesc(S) ==
  IF S = {} THEN <<>>
  ELSE LET m == CHOOSE x \in S : \A y \in S \ {x} :
                  x[1] > y[1] \/ (x[1] = y[1] /\ x[2] > y[2])
       IN <<m>> \o SortedDesc(S \ {m})

\* DatabaseStorage.getUserImageDates: GROUP BY year-month over the user's
\* rows, ORDER BY it descending, then the month made zero-indexed by
\* `parseInt(result.month) - 1`.
DatabaseStorage_getUserImageDates(userId) ==
  LET rows == {i \in images : i.userId = userId}
      grouped == {<<FullYear(UnixEpoch(i.uploadedAt)),
                    StrftimeMonth(UnixEpoch(i.uploadedAt))>> : i \in rows}
      ordered == SortedDesc(grouped)
  IN [k \in DOMAIN ordered |->
        [year |-> ordered[k][1], month |-> ordered[k][2] - 1]]

\* MemStorage.getUserImageDates: a Set of `${year}-${month}` keys of the
\* user's images, split again and sorted by year, then month, descending.
MemStorage_getUserImageDates(userId) ==
  LET rows == {i \in images : i.userId = userId}
      dates == {<<FullYear(i.uploadedAt), DateGetMonth(i.uploadedAt)>> :
                  i \in rows}
      sorted == SortedDesc(dates)
  IN [k \in DOMAIN sorted |->
        [year |-> sorted[k][1], month |-> sorted[k][2]]]

getUserImageDates(userId) ==
  IF impl = "db" THEN DatabaseStorage_getUserImageDates(userId)
  ELSE MemStorage_getUserImageDates(userId)

\* `new Date(year, month, 1).getTime() / 1000`; a month past 11 runs into
\* the following year.
MonthStart(year, month) ==
  ((year - EpochYear) * 12 + month) * InstantsPerMonth

\* DatabaseStorage.getUserImagesByDate: the user's rows whose datetime lies
\* between the datetimes of monthStart and monthEnd, both included.
\* `new Date(year, month + 1, 0, 23, 59, 59, 999).getTime() / 1000` as
\* datetime(..., 'unixepoch') renders it is the last second of the month.
DatabaseStorage_getUserImagesByDate(userId, year, month) ==
  {i \in images :
     /\ i.userId = userId
     /\ UnixEpoch(i.uploadedAt) >= MonthStart(year, month)
     /\ UnixEpoch(i.uploadedAt) <= MonthStart(year, month + 1) - 1}

\* MemStorage.getUserImagesByDate: the user's images whose Date has this
\* year and this month.
MemStorage_getUserImagesByDate(userId, year, month) ==
  {i \in images :
     /\ i.userId = userId
     /\ FullYear(i.uploadedAt) = year
     /\ DateGetMonth(i.uploadedAt) = month}

getUserImagesByDate(userId, year, month) ==
  IF impl = "db" THEN DatabaseStorage_getUserImagesByDate(userId, year, month)
  ELSE MemStorage_getUserImagesByDate(userId, year, month)

\* GET /api/images/by-date with year and month in the query.
GetImagesByDate(caller, year, month) ==
  /\ res' = [op |-> "getImagesByDate", caller |-> caller, id |-> NULL,
             user |-> NULL,
             arg |-> [year |-> year, month |-> month,
                      images |-> getUserImagesByDate(caller, year, month)],
             status |-> 200]
  /\ UNCHANGED <<impl, images, files, friends, groups, groupMembers,
                 imageShares, notifications, nextId>>

\* GET /api/images/dates
GetImageDates(caller) ==
  /\ res' = [op |-> "getImageDates", caller |-> caller, id |-> NULL,
             user |-> NULL, arg |-> getUserImageDates(caller),
             status |-> 200]
  /\ UNCHANGED <<impl, images, files, friends, groups, groupMembers,
                 imageShares, notifications, nextId>>

\* GET /api/images/:id
GetImage(caller, imageId) ==
  /\ UNCHANGED <<impl, images, files, friends, groups, groupMembers,
                 imageShares, notifications, nextId>>
  /\ IF getImage(imageId) = {}
     THEN res' = Response("getImage", caller, imageId, "", 404)
     ELSE LET image == CHOOSE i \in getImage(imageId) : TRUE IN
          IF ~CanViewImage(image, caller)
          THEN res' = Response("getImage", caller, imageId, "", 403)
          ELSE res' = Response("getImage", caller, imageId, "", 200)

\* DELETE /api/images/:id
DeleteImage(caller, imageId) ==
  /\ UNCHANGED <<impl, friends, groups, groupMembers, nextId>>
  /\ IF getImage(imageId) = {}
     THEN /\ res' = Response("deleteImage", caller, imageId, "", 404)
          /\ UNCHANGED <<images, files, imageShares, notifications>>
     ELSE LET image == CHOOSE i \in getImage(imageId) : TRUE IN
          IF ~IsOwner(image, caller)
          THEN /\ res' = Response("deleteImage", caller, imageId, "", 403)
               /\ UNCHANGED <<images, files, imageShares, notifications>>
          ELSE /\ files' = files \ {imageId}
               /\ imageShares' = SharesWithoutImage(imageId)
               /\ notifications' = NotificationsWithoutImage(imageId)
               /\ images' = ImagesWithoutImage(imageId)
               /\ res' = Response("deleteImage", caller, imageId, "", 200)

\* ------------------------------------------- DELETE /api/images/:id, by await

Idle ==
  [pc |-> "idle", caller |-> NULL, imageId |-> NULL, image |-> {},
   groupId |-> NULL]

StoreUnchanged ==
  UNCHANGED <<impl, friends, groups, groupMembers, nextId>>

\* The handler up to `await storage.getImage(imageId)`: the row is read now
\* and used after the await.
DeleteImage_getImage(caller, imageId) ==
  /\ inflight.pc = "idle"
  /\ inflight' = [pc |-> "check", caller |-> caller, imageId |-> imageId,
                  image |-> getImage(imageId), groupId |-> NULL]
  /\ StoreUnchanged
  /\ UNCHANGED <<images, files, imageShares, notifications, res>>

\* The catch of the handler: a statement of the store threw.
DeleteImage_catch ==
  /\ res' = Response("deleteImage", inflight.caller, inflight.imageId, "", 500)
  /\ inflight' = Idle

\* MemStorage.deleteImage has no await: its three loops are one step.
MemStorage_deleteImage(id) ==
  /\ images' = ImagesWithoutImage(id)
  /\ imageShares' = SharesWithoutImage(id)
  /\ notifications' = NotificationsWithoutImage(id)

\* The handler from the result of getImage to the first await of
\* storage.deleteImage: the two early returns, the unlink, and the first
\* statement of deleteImage.
DeleteImage_check ==
  /\ inflight.pc = "check"
  /\ StoreUnchanged
  /\ IF inflight.image = {}
     THEN /\ res' = Response("deleteImage", inflight.caller,
                             inflight.imageId, "", 404)
          /\ inflight' = Idle
          /\ UNCHANGED <<images, files, imageShares, notifications>>
     ELSE LET image == CHOOSE i \in inflight.image : TRUE IN
          IF ~IsOwner(image, inflight.caller)
          THEN /\ res' = Response("deleteImage", inflight.caller,
                                  inflight.imageId, "", 403)
               /\ inflight' = Idle
               /\ UNCHANGED <<images, files, imageShares, notifications>>
          ELSE /\ files' = files \ {inflight.imageId}
               /\ IF impl = "mem"
                  THEN /\ MemStorage_deleteImage(inflight.imageId)
                       /\ res' = Response("deleteImage", inflight.caller,
                                          inflight.imageId, "", 200)
                       /\ inflight' = Idle
                  ELSE /\ UNCHANGED <<images, notifications>>
                       /\ \/ /\ imageShares' = SharesWithoutImage(inflight.imageId)
                             /\ inflight' = [inflight EXCEPT !.pc = "notifications"]
                             /\ UNCHANGED res
                          \/ /\ UNCHANGED imageShares
                             /\ DeleteImage_catch

\* DatabaseStorage.deleteImage, second statement.
DeleteImage_notifications ==
  /\ inflight.pc = "notifications"
  /\ StoreUnchanged
  /\ UNCHANGED <<images, files, imageShares>>
  /\ \/ /\ notifications' = NotificationsWithoutImage(inflight.imageId)
        /\ inflight' = [inflight EXCEPT !.pc = "image"]
        /\ UNCHANGED res
     \/ /\ UNCHANGED notifications
        /\ DeleteImage_catch

\* DatabaseStorage.deleteImage, third statement, and the response.
DeleteImage_image ==
  /\ inflight.pc = "image"
  /\ StoreUnchanged
  /\ UNCHANGED <<files, imageShares, notifications>>
  /\ \/ /\ images' = ImagesWithoutImage(inflight.imageId)
        /\ res' = Response("deleteImage", inflight.caller,
                           inflight.imageId, "", 200)
        /\ inflight' = Idle
     \/ /\ UNCHANGED images
        /\ DeleteImage_catch

\* ------------------------------------------------ POST /api/groups, by await

\* The handler up to the end of `await storage.createGroup(...)`: the group
\* row is inserted, or the statement throws (SQLite only) and the catch
\* answers 500.
CreateGroup_createGroup(caller) ==
  /\ inflight.pc = "idle"
  /\ nextId["group"] <= MaxGroups
  /\ UNCHANGED <<impl, images, files, friends, groupMembers, imageShares,
                 notifications>>
  /\ \/ /\ groups' = groups \cup {GroupRow(caller, nextId["group"])}
        /\ nextId' = [nextId EXCEPT !["group"] = @ + 1]
        /\ inflight' = [Idle EXCEPT !.pc = "addGroupMember",
                                    !.caller = caller,
                                    !.groupId = nextId["group"]]
        /\ UNCHANGED res
     \/ /\ impl = "db"
        /\ res' = Response("createGroup", caller, NULL, "", 500)
        /\ UNCHANGED <<groups, nextId, inflight>>

\* The handler from `await storage.addGroupMember(...)` to its response.
CreateGroup_addGroupMember ==
  /\ inflight.pc = "addGroupMember"
  /\ UNCHANGED <<impl, images, files, friends, groups, imageShares,
                 notifications>>
  /\ inflight' = Idle
  /\ \/ /\ nextId["member"] <= MaxMemberRows
        /\ groupMembers' = groupMembers \cup
              {MemberRow(inflight.groupId, inflight.caller, nextId["member"])}
        /\ nextId' = [nextId EXCEPT !["member"] = @ + 1]
        /\ res' = Response("createGroup", inflight.caller, inflight.groupId,
                           "", 201)
     \/ /\ impl = "db"
        /\ res' = Response("createGroup", inflight.caller, inflight.groupId,
                           "", 500)
        /\ UNCHANGED <<groupMembers, nextId>>

\* ------------------------------------- the friend and member writes, by await

\* A handler that yielded at an await: where it resumes, its session's user,
\* the id in its path or of the row it inserted, the user its body names and
\* the body's status.
Awaiting(pc, caller, id, user, arg) ==
  [pc |-> pc, caller |-> caller, imageId |-> NULL, image |-> {},
   groupId |-> NULL, id |-> id, user |-> user, arg |-> arg]

\* A catch that undoes what the request wrote.
AfterCatch_RolledBack(table, written) == table \ written

\* The catch of a handler answers 500 and leaves the tables as they are.
AfterCatch(table, written) == table

\* POST /api/friends/request up to the end of `await storage.getFriendship`.
SendFriendRequest_getFriendship(caller, addresseeId) ==
  /\ inflight.pc = "idle"
  /\ UNCHANGED store
  /\ IF IsSelfRequest(caller, addresseeId)
        \/ FriendRequestExists(caller, addresseeId)
     THEN /\ res' = Response("sendFriendRequest", caller, addresseeId, "", 400)
          /\ UNCHANGED inflight
     ELSE /\ inflight' = Awaiting("createFriend", caller, NULL, addresseeId, "")
          /\ UNCHANGED res

\* `await storage.createFriend(...)`
SendFriendRequest_createFriend ==
  /\ inflight.pc = "createFriend"
  /\ UNCHANGED <<impl, images, files, groups, groupMembers, imageShares,
                 notifications>>
  /\ IF ForeignKeysEnforced /\ inflight.user \notin Users
     THEN /\ res' = Response("sendFriendRequest", inflight.caller,
                             inflight.user, "", 500)
          /\ inflight' = Idle
          /\ UNCHANGED <<friends, nextId>>
     ELSE /\ nextId["friend"] <= MaxFriendRows
          /\ friends' = friends \cup
                {FriendRow(inflight.caller, inflight.user, nextId["friend"])}
          /\ nextId' = [nextId EXCEPT !["friend"] = @ + 1]
          /\ inflight' = [inflight EXCEPT !.pc = "friendNotification",
                                          !.id = nextId["friend"]]
          /\ UNCHANGED res

\* `await storage.createNotification(...)` and the response; the statement
\* throws (SQLite only) and the catch answers 500.
SendFriendRequest_createNotification ==
  /\ inflight.pc = "friendNotification"
  /\ UNCHANGED <<impl, images, files, groups, groupMembers, imageShares>>
  /\ inflight' = Idle
  /\ \/ /\ nextId["notification"] <= MaxNotifications
        /\ notifications' = notifications \cup
              {NotificationRow(inflight.user, "friend_request", "sent",
                               inflight.caller, NULL, NULL,
                               nextId["notification"])}
        /\ nextId' = [nextId EXCEPT !["notification"] = @ + 1]
        /\ res' = Response("sendFriendRequest", inflight.caller,
                           inflight.user, "", 201)
        /\ UNCHANGED friends
     \/ /\ impl = "db"
        /\ friends' = AfterCatch(friends, getFriendRequest(inflight.id))
        /\ res' = Response("sendFriendRequest", inflight.caller,
                           inflight.user, "", 500)
        /\ UNCHANGED <<notifications, nextId>>

\* PUT /api/friends/requests/:id up to the end of
\* `await storage.getFriendRequest`, with the three early returns.
RespondFriendRequest_getFriendRequest(caller, requestId, status) ==
  /\ inflight.pc = "idle"
  /\ UNCHANGED store
  /\ IF ~ValidStatus(status)
     THEN /\ res' = Response("respondFriendRequest", caller, requestId, status, 400)
          /\ UNCHANGED inflight
     ELSE IF getFriendRequest(requestId) = {}
     THEN /\ res' = Response("respondFriendRequest", caller, requestId, status, 404)
          /\ UNCHANGED inflight
     ELSE LET request == CHOOSE f \in getFriendRequest(requestId) : TRUE IN
          IF ~IsAddressee(request, caller)
          THEN /\ res' = Response("respondFriendRequest", caller, requestId,
                                  status, 403)
               /\ UNCHANGED inflight
          ELSE /\ inflight' = Awaiting("updateFriendRequest", caller, requestId,
                                       request.requesterId, status)
               /\ UNCHANGED res

\* `await storage.updateFriendRequest(requestId, status)`
RespondFriendRequest_updateFriendRequest ==
  /\ inflight.pc = "updateFriendRequest"
  /\ UNCHANGED <<impl, images, files, groups, groupMembers, imageShares,
                 notifications, nextId, res>>
  /\ friends' = updateFriendRequest(inflight.id, inflight.arg)
  /\ inflight' = [inflight EXCEPT !.pc = "respondNotification"]

\* `await storage.createNotification(...)` and the response.
RespondFriendRequest_createNotification ==
  /\ inflight.pc = "respondNotification"
  /\ UNCHANGED <<impl, images, files, friends, groups, groupMembers,
                 imageShares>>
  /\ inflight' = Idle
  /\ \/ /\ nextId["notification"] <= MaxNotifications
        /\ notifications' = notifications \cup
              {NotificationRow(inflight.user, "friend_request", inflight.arg,
                               inflight.caller, NULL, NULL,
                               nextId["notification"])}
        /\ nextId' = [nextId EXCEPT !["notification"] = @ + 1]
        /\ res' = Response("respondFriendRequest", inflight.caller,
                           inflight.id, inflight.arg, 200)
     \/ /\ impl = "db"
        /\ res' = Response("respondFriendRequest", inflight.caller,
                           inflight.id, inflight.arg, 500)
        /\ UNCHANGED <<notifications, nextId>>

\* POST /api/groups/:id/members up to the end of the first
\* `await storage.isGroupMember`: the caller's membership.
AddGroupMember_isMember(caller, groupId, userId) ==
  /\ inflight.pc = "idle"
  /\ UNCHANGED store
  /\ IF ~isGroupMember(groupId, caller)
     THEN /\ res' = MemberResponse("addGroupMember", caller, groupId, userId, 403)
          /\ UNCHANGED inflight
     ELSE /\ inflight' = Awaiting("isAlreadyMember", caller, groupId, userId, "")
          /\ UNCHANGED res

\* The second `await storage.isGroupMember`: the target's membership.
AddGroupMember_isAlreadyMember ==
  /\ inflight.pc = "isAlreadyMember"
  /\ UNCHANGED store
  /\ IF isGroupMember(inflight.id, inflight.user)
     THEN /\ res' = MemberResponse("addGroupMember", inflight.caller,
                                   inflight.id, inflight.user, 400)
          /\ inflight' = Idle
     ELSE /\ inflight' = [inflight EXCEPT !.pc = "addGroupMember"]
          /\ UNCHANGED res

\* `await storage.addGroupMember(...)`
AddGroupMember_addGroupMember ==
  /\ inflight.pc = "addGroupMember"
  /\ UNCHANGED <<impl, images, files, friends, groups, imageShares,
                 notifications>>
  /\ IF ForeignKeysEnforced
        /\ (inflight.user \notin Users \/ getGroup(inflight.id) = {})
     THEN /\ res' = MemberResponse("addGroupMember", inflight.caller,
                                   inflight.id, inflight.user, 500)
          /\ inflight' = Idle
          /\ UNCHANGED <<groupMembers, nextId>>
     ELSE /\ nextId["member"] <= MaxMemberRowsByAwait
          /\ groupMembers' = groupMembers \cup
                {MemberRow(inflight.id, inflight.user, nextId["member"])}
          /\ nextId' = [nextId EXCEPT !["member"] = @ + 1]
          /\ inflight' = [inflight EXCEPT !.pc = "getGroup"]
          /\ UNCHANGED res

\* `await storage.getGroup(groupId)`, which throws when the row is missing.
AddGroupMember_getGroup ==
  /\ inflight.pc = "getGroup"
  /\ UNCHANGED store
  /\ IF getGroup(inflight.id) = {}
     THEN /\ res' = MemberResponse("addGroupMember", inflight.caller,
                                   inflight.id, inflight.user, 500)
          /\ inflight' = Idle
     ELSE /\ inflight' = [inflight EXCEPT !.pc = "memberNotification"]
          /\ UNCHANGED res

\* `await storage.createNotification(...)` and the response.
AddGroupMember_createNotification ==
  /\ inflight.pc = "memberNotification"
  /\ UNCHANGED <<impl, images, files, friends, groups, imageShares>>
  /\ inflight' = Idle
  /\ \/ /\ notifications' = notifications \cup
              {GroupInvite(inflight.caller, inflight.id, inflight.user,
                           nextId["notification"])}
        /\ nextId' = [nextId EXCEPT !["notification"] = @ + 1]
        /\ res' = MemberResponse("addGroupMember", inflight.caller,
                                 inflight.id, inflight.user, 201)
        /\ UNCHANGED groupMembers
     \/ /\ impl = "db"
        /\ groupMembers' =
              AfterCatch(groupMembers,
                         {m \in groupMembers : m.groupId = inflight.id
                                               /\ m.userId = inflight.user})
        /\ res' = MemberResponse("addGroupMember", inflight.caller,
                                 inflight.id, inflight.user, 500)
        /\ UNCHANGED <<notifications, nextId>>

\* ------------------------------------------------------ claims on friends

\* C2: after any sequence of completed friend-request calls, the friends
\* table holds at most one row for any unordered pair of user ids,
\* whichever of the two was the requester.
C2_AtMostOneRowPerPair ==
  \A f \in friends : \A g \in friends :
    {f.requesterId, f.addresseeId} = {g.requesterId, g.addresseeId} => f = g

\* A request in the reverse direction of an existing row was served and refused.
C2_Witness ==
  /\ res.op = "sendFriendRequest"
  /\ res.status = 400
  /\ \E f \in friends : f.requesterId = res.id /\ f.addresseeId = res.caller

\* C3: a friendship row's status changes only from pending: a row that is
\* accepted or declined keeps its status in every later step.
C3_StatusOnlyLeavesPending ==
  [][\A f \in friends : f.status # "pending" =>
        \A g \in friends' : g.id = f.id => g.status = f.status]_vars

\* C4: a friendship row's status changes only in a PUT by its addressee; a
\* PUT (with accepted or declined) by any other user on an existing row
\* answers 403, changes no row and creates no notification.
C4_NonAddresseeForbidden ==
  (res.op = "respondFriendRequest" /\ ValidStatus(res.arg)) =>
    \A f \in getFriendRequest(res.id) :
      f.addresseeId # res.caller => res.status = 403

C4_StatusChangedByAddresseeOnly ==
  /\ \A f \in friends : \A g \in friends' :
       (g.id = f.id /\ g.status # f.status) =>
          /\ res'.op = "respondFriendRequest"
          /\ res'.id = f.id
          /\ res'.caller = f.addresseeId
  /\ (res'.op = "respondFriendRequest" /\ res'.status = 403) =>
       (friends' = friends /\ notifications' = notifications)

C5_Rejected ==
  (/\ res'.op = "sendFriendRequest"
   /\ \/ res'.caller = res'.id
      \/ \E f \in friends :
           {f.requesterId, f.addresseeId} = {res'.caller, res'.id}) =>
    /\ res'.status = 400
    /\ friends' = friends
    /\ notifications' = notifications

C5_SelfOrDuplicateRejected == [][C5_Rejected]_vars

\* A request towards a user whose own earlier request was declined is refused.
C5_Witness ==
  /\ res.op = "sendFriendRequest"
  /\ res.status = 400
  /\ \E f \in friends :
       /\ f.requesterId = res.id
       /\ f.addresseeId = res.caller
       /\ f.status = "declined"

\* ------------------------------------------------------- claims on images

\* An ImageShare row for image i names user u directly.
DirectShare(u, i) ==
  \E s \in imageShares : s.imageId = i /\ s.userId = u

\* An ImageShare row for image i names a group with a membership row for u.
GroupShare(u, i) ==
  \E s \in imageShares :
    s.imageId = i /\ s.groupId # NULL /\ isGroupMember(s.groupId, u)

Owns(u, i) == \E img \in images : img.id = i /\ img.userId = u

\* C1: in every reachable store state and under either storage
\* implementation, userHasImageAccess(u, i) is true exactly when u owns i, or
\* a share of i names u, or a share of i names a group u is a member of.
C1_AccessIffOwnerOrShared ==
  \A u \in Users : \A i \in Ids(images) :
    userHasImageAccess(u, i) <=> (Owns(u, i) \/ DirectShare(u, i) \/ GroupShare(u, i))

\* C6: once DELETE /api/images/:id has succeeded, the image row is gone, no
\* share and no notification names that image id, userHasImageAccess is
\* false for every user on it, and no user's notifications list refers to it.
C6_DeletedImageLeavesNothing ==
  /\ (res.op = "deleteImage" /\ res.status = 200) => getImage(res.id) = {}
  /\ \A i \in 1..(nextId["image"] - 1) :
       getImage(i) = {} =>
         /\ \A s \in imageShares : s.imageId # i
         /\ \A n \in notifications : n.imageId # i
         /\ \A u \in Users : ~userHasImageAccess(u, i)

\* The only image ever uploaded was shared and notified, and its owner has
\* deleted it.
C6_Witness ==
  /\ res.op = "deleteImage"
  /\ res.status = 200
  /\ nextId["share"] > 1
  /\ nextId["notification"] > 1
  /\ nextId["member"] = 1

\* C8: DELETE /api/images/:id by a user who does not own the image answers
\* 403 and leaves the image row, its file, its shares and its notifications
\* as they were; only a request of the owner removes any of them.
C8_NonOwnerForbidden ==
  res.op = "deleteImage" =>
    \A img \in getImage(res.id) : img.userId # res.caller => res.status = 403

C8_NothingChanged ==
  /\ (res'.op = "deleteImage" /\ res'.status = 403) =>
       /\ images' = images
       /\ files' = files
       /\ imageShares' = imageShares
       /\ notifications' = notifications
  /\ \A img \in images :
       (img \notin images' \/ (img.id \in files /\ img.id \notin files')) =>
          (res'.op = "deleteImage" /\ res'.caller = img.userId)

C8_OnlyOwnerDeletes ==
  [](C8_NonOwnerForbidden) /\ [][C8_NothingChanged]_vars

\* A user the image is shared with asked for its deletion and got 403.
C8_Witness ==
  /\ res.op = "deleteImage"
  /\ res.status = 403
  /\ DirectShare(res.caller, res.id) \/ GroupShare(res.caller, res.id)
  /\ \E n \in notifications : n.imageId = res.id

\* C9: GET /api/images/:id answers 404 when no image row has the id, 403
\* when the row exists and the caller neither owns it nor is admitted by a
\* direct or a group share, and the image otherwise; a missing id is 404
\* whoever asks.
C9_GetImageStatus ==
  res.op = "getImage" =>
    res.status =
      IF getImage(res.id) = {} THEN 404
      ELSE IF ~(\/ Owns(res.caller, res.id)
                \/ DirectShare(res.caller, res.id)
                \/ GroupShare(res.caller, res.id)) THEN 403
      ELSE 200

\* A user asked for an image that was deleted and got 404.
C9_Witness ==
  /\ res.op = "getImage"
  /\ res.status = 404
  /\ res.id < nextId["image"]

\* The image_share notifications user u holds for image i and group g.
GroupShareNotifications(u, i, g) ==
  {n \in notifications :
     n.userId = u /\ n.type = "image_share" /\ n.imageId = i /\ n.groupId = g}

\* C10: when an upload has shared the new image with a group, every user who
\* is a member of that group at that moment, the uploader excepted, holds
\* exactly one image_share notification for that image and group, and the
\* uploader holds none.
C10_OneNotificationPerMember ==
  (res.op = "uploadImage" /\ res.status = 201) =>
    \A s \in imageShares :
      (s.imageId = res.id /\ s.groupId # NULL) =>
        \A u \in Users :
          isGroupMember(s.groupId, u) =>
            Cardinality(GroupShareNotifications(u, res.id, s.groupId)) =
              IF u = res.caller THEN 0 ELSE 1

\* C11: in every reachable store state every image_shares row has exactly one
\* of userId and groupId set: never both and never neither.
C11_ExactlyOneTarget ==
  \A s \in imageShares : (s.userId = NULL) # (s.groupId = NULL)

\* C12: right after POST /api/groups has finished, with 201 or with an
\* error, the group it created exists only together with a membership row
\* for its creator.
C12_CreatorIsMember ==
  res.op = "createGroup" =>
    \A g \in getGroup(res.id) : isGroupMember(g.id, g.createdBy)

\* C13: DELETE /api/groups/:groupId/members/:userId removes a membership row
\* only for a caller who is the user removed or the group's creator; any
\* other caller gets 403 and the membership rows stay as they were.
C13_RemovedBySelfOrCreator ==
  /\ (res'.op = "removeGroupMember" /\ groups' = groups) =>
        \A g \in getGroup(res'.id) :
          (res'.caller # res'.user /\ res'.caller # g.createdBy) =>
             res'.status = 403
  /\ (res'.op = "removeGroupMember" /\ res'.status = 403) =>
        groupMembers' = groupMembers
  /\ \A m \in groupMembers \ groupMembers' :
        /\ res'.op = "removeGroupMember"
        /\ res'.id = m.groupId
        /\ res'.user = m.userId
        /\ \/ res'.caller = m.userId
           \/ \E g \in groups : g.id = m.groupId /\ g.createdBy = res'.caller

C13_OnlySelfOrCreatorRemoves == [][C13_RemovedBySelfOrCreator]_vars

\* A member who is not the creator asked to remove another member, got 403.
C13_Witness ==
  /\ res.op = "removeGroupMember"
  /\ res.status = 403
  /\ res.caller # res.user
  /\ isGroupMember(res.id, res.caller)
  /\ isGroupMember(res.id, res.user)

HasMembershipRow(groupId, userId) ==
  \E m \in groupMembers : m.groupId = groupId /\ m.userId = userId

GroupGatedOps == {"getGroup", "getGroupImages", "addGroupMember"}

\* C14: GET /api/groups/:id, GET /api/groups/:id/images and
\* POST /api/groups/:id/members answer 403 to a caller without a membership
\* row in the group: the response carries no group and no image list, and
\* no membership or notification row is created.
C14_NonMemberForbidden ==
  (res.op \in GroupGatedOps /\ ~HasMembershipRow(res.id, res.caller)) =>
     (res.status = 403 /\ res.arg = "")

C14_NothingCreated ==
  /\ (res'.op \in GroupGatedOps /\ res'.status = 403) =>
        (groupMembers' = groupMembers /\ notifications' = notifications)
  /\ res'.op = "addGroupMember" =>
        \A m \in groupMembers' \ groupMembers :
          HasMembershipRow(m.groupId, res'.caller)

C14_GroupRoutesGated ==
  [](C14_NonMemberForbidden) /\ [][C14_NothingCreated]_vars

\* The creator of a group, holding no membership row in it, asked to add a
\* user who is not a member and got 403.
C14_Witness ==
  /\ res.op = "addGroupMember"
  /\ res.status = 403
  /\ \E g \in getGroup(res.id) : g.createdBy = res.caller
  /\ ~HasMembershipRow(res.id, res.user)
  /\ res.user \in Users

\* The request r names a resource by an id that no row has.
NamesMissingRow(r) ==
  \/ r.op \in {"getImage", "deleteImage"} /\ getImage(r.id) = {}
  \/ r.op = "respondFriendRequest" /\ getFriendRequest(r.id) = {}
  \/ r.op = "markNotificationAsRead" /\ getNotification(r.id) = {}
  \/ /\ r.op \in {"getGroup", "getGroupImages", "addGroupMember",
                   "removeGroupMember"}
     /\ getGroup(r.id) = {}

\* C16: a request that names an image, a friend request, a notification or a
\* group by an id
\* without a row is answered 404 (400 when its body is refused before the
\* lookup), never 403 or 500 and never with success.
C16_MissingIsNotFound ==
  (groups' = groups /\ images' = images /\ friends' = friends
     /\ Ids(notifications') = Ids(notifications) /\ NamesMissingRow(res')) =>
        res'.status \in {404, 400}

C16_MissingResourceIs404 == [][C16_MissingIsNotFound]_vars

\* C17: a notification row, once created, keeps its recipient, type, content,
\* senderId, groupId and imageId under every operation; only isRead is ever
\* modified, and only from false to true.
C17_OnlyIsReadChanges ==
  \A n \in notifications : \A m \in notifications' :
    m.id = n.id =>
      /\ [m EXCEPT !.isRead = n.isRead] = n
      /\ n.isRead => m.isRead

C17_NotificationsImmutable == [][C17_OnlyIsReadChanges]_vars

\* A user has marked one of two notifications held as read.
C17_Witness ==
  /\ res.op = "markNotificationAsRead"
  /\ res.status = 200
  /\ \E n \in notifications : n.id = res.id /\ n.isRead
  /\ \E n \in notifications : n.id # res.id /\ ~n.isRead

\* The friend_request notifications a step creates.
NewFriendNotifications ==
  {n \in notifications' :
     n.type = "friend_request" /\ n.id \notin Ids(notifications)}

\* C18: a friend-request write comes with exactly one friend_request
\* notification: creating a request from r to a notifies a with senderId r,
\* an answer by a notifies r with senderId a and with the status the row
\* now holds as content; no friend_request notification is created
\* without such a write.
C18_OneNotificationPerWrite ==
  /\ \A f \in friends' :
        f.id \notin Ids(friends) =>
          /\ Cardinality(NewFriendNotifications) = 1
          /\ \A n \in NewFriendNotifications :
                /\ n.userId = f.addresseeId
                /\ n.senderId = f.requesterId
                /\ n.content = "sent"
  /\ (res'.op = "respondFriendRequest" /\ res'.status = 200) =>
        \E f \in friends' :
          /\ f.id = res'.id
          /\ Cardinality(NewFriendNotifications) = 1
          /\ \A n \in NewFriendNotifications :
                /\ n.userId = f.requesterId
                /\ n.senderId = f.addresseeId
                /\ n.content = f.status
  /\ NewFriendNotifications # {} =>
        \/ \E f \in friends' : f.id \notin Ids(friends)
        \/ /\ res'.op = "respondFriendRequest"
           /\ res'.status = 200
           /\ \E f \in friends' : f.id = res'.id /\ f.status = res'.arg

ListedUsers(listing) == {entry.user : entry \in listing}

\* C19: a pending request from A to B is exactly one entry of B's
\* GET /api/friends/requests, with A attached, and then neither user's
\* GET /api/friends lists the other; once B has accepted, the entry is no
\* longer among B's requests and GET /api/friends lists B for A and A for B.
C19_ListingsFollowStatus ==
  \A f \in friends :
    (f.requesterId \in Users /\ f.addresseeId \in Users) =>
      LET A == f.requesterId
          B == f.addresseeId
          entries == {r \in getFriendRequests(B) : r.id = f.id}
      IN /\ f.status = "pending" =>
              /\ Cardinality(entries) = 1
              /\ \A r \in entries : r.user = A
              /\ B \notin ListedUsers(getUserFriends(A))
              /\ A \notin ListedUsers(getUserFriends(B))
         /\ f.status = "accepted" =>
              /\ entries = {}
              /\ B \in ListedUsers(getUserFriends(A))
              /\ A \in ListedUsers(getUserFriends(B))
              /\ \A r \in getUserFriends(A) : r.id = f.id => r.user = B
              /\ \A r \in getUserFriends(B) : r.id = f.id => r.user = A

\* B has accepted A's request and asks for the list of friends.
C19_Witness ==
  /\ res.op = "getFriends"
  /\ \E f \in friends :
        /\ f.status = "accepted"
        /\ f.addresseeId = res.caller
        /\ f.requesterId \in ListedUsers(getUserFriends(res.caller))

\* C20: getUserImageDates(u) lists exactly the (year, month) pairs of the
\* upload instants of u's own images, the month counted from 0, no pair
\* twice, in strictly descending order of (year, month).
C20_DatesOfOwnImages ==
  \A u \in Users :
    LET r == getUserImageDates(u)
        own == {i \in images : i.userId = u}
    IN /\ {<<r[k].year, r[k].month>> : k \in DOMAIN r} =
            {<<EpochYear + i.uploadedAt \div (12 * InstantsPerMonth),
               (i.uploadedAt \div InstantsPerMonth) % 12>> : i \in own}
       /\ \A k \in DOMAIN r : r[k].month \in 0..11
       /\ \A j, k \in DOMAIN r :
            j < k => \/ r[j].year > r[k].year
                     \/ r[j].year = r[k].year /\ r[j].month > r[k].month

\* The upload instants of the stores the timeline is computed from: in
\* January and February of the epoch year, in its December, in the January
\* after, and MillisPerSecond times further from the epoch than February.
UploadInstants ==
  {0, 1, InstantsPerMonth,
   11 * InstantsPerMonth, 11 * InstantsPerMonth + 1, 12 * InstantsPerMonth,
   MillisPerSecond * InstantsPerMonth}

\* The months of the timeline: those an upload of the stores falls in.
TimelineMonths ==
  {<<FullYear(t), DateGetMonth(t)>> : t \in UploadInstants}

\* The images of u uploaded from the first instant of the month up to, not
\* including, the first instant of the following month.
UploadedWithin(u, year, month) ==
  {i \in images :
     /\ i.userId = u
     /\ MonthStart(year, month) <= i.uploadedAt
     /\ i.uploadedAt < MonthStart(year, month + 1)}

\* The resume points of the three createNotification calls that follow a
\* write of their request.
NotificationSteps ==
  {"friendNotification", "respondNotification", "memberNotification"}

\* A step in which createNotification threw after the request's write.
NotificationFailed ==
  /\ inflight.pc \in NotificationSteps
  /\ inflight'.pc = "idle"
  /\ res'.status = 500

\* C23: when createNotification fails after the write that triggers it, the
\* write is not undone: the friends row inserted or updated, the
\* group_members row inserted, and the images and image_shares rows
\* inserted so far are in the store when the request has ended.
C23_WriteOutlivesNotification ==
  /\ NotificationFailed =>
       /\ friends' = friends
       /\ groupMembers' = groupMembers
       /\ inflight.pc = "friendNotification" =>
            \E f \in friends' : /\ f.id = inflight.id
                                /\ f.requesterId = inflight.caller
                                /\ f.addresseeId = inflight.user
       /\ inflight.pc = "respondNotification" =>
            \E f \in friends' : f.id = inflight.id /\ f.status = inflight.arg
       /\ inflight.pc = "memberNotification" =>
            \E m \in groupMembers' : /\ m.groupId = inflight.id
                                     /\ m.userId = inflight.user
  /\ (res'.op = "uploadImage" /\ res'.status = 500
      /\ nextId'["image"] # nextId["image"]) =>
       /\ \E i \in images' \ images : i.id = res'.id
       /\ imageShares \subseteq imageShares'
       /\ Cardinality(imageShares' \ imageShares) =
            nextId'["share"] - nextId["share"]

C23_NoRollback == [][C23_WriteOutlivesNotification]_vars

\* Each kind of request has ended with 500 at its createNotification: a
\* pending friends row without the addressee's notification, a membership
\* row without the invite, and a share row of the uploaded image without
\* its notification.
C23_Witness ==
  /\ impl = "db"
  /\ inflight.pc = "idle"
  /\ res.op = "addGroupMember" /\ res.status = 500
  /\ \E m \in groupMembers :
       /\ m.groupId = res.id /\ m.userId = res.user
       /\ ~\E n \in notifications : n.type = "group_invite" /\ n.userId = m.userId
  /\ \E f \in friends :
       ~\E n \in notifications : n.type = "friend_request"
  /\ \E s \in imageShares :
       ~\E n \in notifications : n.imageId = s.imageId

\* C24: a POST /api/groups/:id/members answered 201 was sent by a member,
\* leaves the target user a member of the group, and adds exactly one
\* notification: a group_invite to the added user, from the caller, for
\* that group.  No other notification is added or changed.
C24_OneInviteToAddedUser ==
  (res'.op = "addGroupMember" /\ res'.status = 201 /\ res' # res) =>
    /\ HasMembershipRow(res'.id, res'.caller)
    /\ \E m \in groupMembers' : m.groupId = res'.id /\ m.userId = res'.user
    /\ notifications \subseteq notifications'
    /\ \E n \in notifications' :
         /\ notifications' \ notifications = {n}
         /\ n.type = "group_invite"
         /\ n.userId = res'.user
         /\ n.senderId = res'.caller
         /\ n.groupId = res'.id

C24_AddMemberNotifies == [][C24_OneInviteToAddedUser]_vars

\* A member added another user, who holds the invitation.
C24_Witness ==
  /\ res.op = "addGroupMember" /\ res.status = 201
  /\ res.user # res.caller
  /\ HasMembershipRow(res.id, res.user)
  /\ \E n \in notifications :
       /\ n.type = "group_invite" /\ n.userId = res.user
       /\ n.senderId = res.caller /\ n.groupId = res.id

\* C25: PUT /api/notifications/:id/read and PUT /api/notifications/read-all
\* of user u leave every notification of another recipient as it is: the
\* first answers 403 and changes nothing when the row is not u's, the
\* second changes rows of u only.
C25_OtherRecipientsUntouched ==
  res'.op \in {"markNotificationAsRead", "markAllNotificationsAsRead"} =>
    /\ \A n \in notifications : n.userId # res'.caller => n \in notifications'
    /\ Ids(notifications') = Ids(notifications)
    /\ (/\ res'.op = "markNotificationAsRead"
        /\ \E n \in getNotification(res'.id) : n.userId # res'.caller) =>
         /\ res'.status = 403
         /\ notifications' = notifications

C25_MarkReadOwnOnly == [][C25_OtherRecipientsUntouched]_vars

\* A user marked all read while another user held an unread notification,
\* which is still unread.
C25_Witness ==
  /\ res.op = "markAllNotificationsAsRead"
  /\ \E n \in notifications : n.userId = res.caller /\ n.isRead
  /\ \E n \in notifications : n.userId # res.caller /\ ~n.isRead

\* C26: with a POST /api/friends/request yielding at each awaited store call
\* while another is served, no two requests for the same unordered pair of
\* users both insert: getFriendship finds at most one row for any pair.
C26_OneRowPerPairInterleaved ==
  \A a \in Users : \A b \in Users :
    Cardinality(getFriendship(a, b)) <= 1

\* A group and a user have at most one membership row.
C27_MembershipUnique ==
  \A m \in groupMembers : \A n \in groupMembers :
    (m.groupId = n.groupId /\ m.userId = n.userId) => m = n

\* A DELETE /api/groups/:groupId/members/:userId answered 200 leaves no
\* membership row of that user in that group.
C27_RemovedIsGone ==
  (res'.op = "removeGroupMember" /\ res'.status = 200 /\ inflight' = inflight)
    => ~\E m \in groupMembers' : m.groupId = res'.id /\ m.userId = res'.user

\* C27: in every reachable state, those reached by interleaved POST
\* /api/groups/:id/members requests for one target included, a (group, user)
\* pair has at most one membership row, and so a successful DELETE of a
\* member leaves the user no member, under either storage.
C27_OneMembershipPerPair ==
  [][C27_MembershipUnique /\ C27_RemovedIsGone]_vars

\* The user has a membership row in a group that image i is shared with.
MemberOfSharingGroup(u, i) ==
  \E s \in imageShares :
    /\ s.imageId = i
    /\ \E m \in groupMembers : m.groupId = s.groupId /\ m.userId = u

\* C28: access through a group follows the membership rows of the moment.
\* A DELETE of a member answered 200 leaves the user without a membership
\* row; from then on, as long as no row is inserted again, GET
\* /api/images/:id answers 403 to a user who neither owns the image nor is
\* named by a direct share, and GET /api/groups/:id/images answers 403.
C28_CurrentMembershipDecides ==
  /\ (res'.op = "removeGroupMember" /\ res'.status = 200) =>
       ~\E m \in groupMembers' : m.groupId = res'.id /\ m.userId = res'.user
  /\ (res'.op = "getImage" /\ getImage(res'.id) # {}
      /\ ~Owns(res'.caller, res'.id) /\ ~DirectShare(res'.caller, res'.id)) =>
       (res'.status = 403 <=> ~MemberOfSharingGroup(res'.caller, res'.id))
  /\ res'.op = "getGroupImages" =>
       (res'.status = 403 <=> ~HasMembershipRow(res'.id, res'.caller))

C28_AccessEndsWithMembership == [][C28_CurrentMembershipDecides]_vars

\* A user who was added to a group, and has since been removed from it, was
\* refused an image that is shared with that group.
C28_Witness ==
  /\ res.op = "getImage" /\ res.status = 403
  /\ \E s \in imageShares :
       /\ s.imageId = res.id
       /\ s.groupId # NULL
       /\ ~HasMembershipRow(s.groupId, res.caller)
       /\ \E n \in notifications :
            /\ n.userId = res.caller
            /\ n.type = "group_invite"
            /\ n.groupId = s.groupId

\* Every reference of a row names a row: a store that the operations of
\* both implementations build alike.
ReferencesResolve ==
  /\ \A s \in imageShares :
       /\ s.imageId \in Ids(images)
       /\ s.userId \in Users \cup {NULL}
       /\ s.groupId \in Ids(groups) \cup {NULL}
  /\ \A m \in groupMembers : m.groupId \in Ids(groups) /\ m.userId \in Users

\* C29: MemStorage and DatabaseStorage answer every query alike on the
\* store that one sequence of operations builds: userHasImageAccess,
\* getImageWithShares and getGroupMembers give the same result.
C29_ImplementationsAgree ==
  ReferencesResolve =>
    /\ \A u \in Users : \A i \in images :
         DatabaseStorage_userHasImageAccess(u, i.id)
           = MemStorage_userHasImageAccess(u, i.id)
    /\ \A i \in images :
         DatabaseStorage_getImageWithShares(i.id)
           = MemStorage_getImageWithShares(i.id)
    /\ \A g \in groups :
         DatabaseStorage_getGroupMembers(g.id) = MemStorage_getGroupMembers(g.id)

\* C30: the PUT /api/friends/requests/:id that a click on Accept or Decline
\* of a friend_request notification sends carries the id of the pending
\* friends row from the notification's sender to the user who clicks.
C30_ClickNamesSendersRequest ==
  res'.op = "respondFriendRequest" =>
    \E n \in FriendRequestActions(res'.caller) :
      \E f \in friends :
        /\ f.id = res'.id
        /\ f.status = "pending"
        /\ f.requesterId = n.senderId
        /\ f.addresseeId = res'.caller

C30_ClickAnswersSender == [][C30_ClickNamesSendersRequest]_vars

\* C22: for an existing image i, getImageWithShares(i) gives shares.users as
\* the users named by i's direct-user share rows and shares.groups as the
\* groups named by i's group share rows; both are empty for an image
\* without shares.
C22_SharesPartitioned ==
  \A i \in images :
    LET r == getImageWithShares(i.id) IN
      /\ r.found
      /\ r.users = {u \in Users : DirectShare(u, i.id)}
      /\ r.groups = {g \in groups :
                       \E s \in imageShares :
                         s.imageId = i.id /\ s.groupId = g.id}

\* C21: getUserImagesByDate(u, year, month) is exactly the images of u with
\* start(year, month) <= upload instant < start of the following month;
\* every image of u is in exactly one month's result, and every pair that
\* getUserImageDates(u) lists has a non-empty result.
C21_ImagesOfTheMonth ==
  \A u \in Users :
    /\ \A ym \in TimelineMonths :
         getUserImagesByDate(u, ym[1], ym[2]) = UploadedWithin(u, ym[1], ym[2])
    /\ \A i \in images :
         i.userId = u =>
           Cardinality({ym \in TimelineMonths :
                          i \in getUserImagesByDate(u, ym[1], ym[2])}) = 1
    /\ LET r == getUserImageDates(u)
       IN \A k \in DOMAIN r :
            getUserImagesByDate(u, r[k].year, r[k].month) # {}

\* C15: a request without an authenticated session is answered 401 with
\* {"message": "Unauthorized"} by every endpoint, and no table and no file
\* changes with it.
C15_Answered401 ==
  (res.op # "none" /\ res.caller = NULL) =>
     (res.status = 401 /\ res.arg = "Unauthorized")

C15_NothingTouched == res'.caller = NULL => UNCHANGED store

C15_UnauthenticatedRejected ==
  [](C15_Answered401) /\ [][C15_NothingTouched]_vars

\* DELETE /api/images/:id of an image that exists, without a session.
C15_Witness ==
  /\ res.op = "deleteImage"
  /\ res.status = 401
  /\ images # {}
  /\ files # {}

\* C7: deleteImage is atomic and removes dependents first: in every state
\* another request can observe, every share and every notification that
\* names an image names one whose row exists, and a step that removes any
\* of an image's row, shares or notifications removes all of them.
C7_NoOrphans ==
  /\ \A s \in imageShares : s.imageId \in Ids(images)
  /\ \A n \in notifications : n.imageId # NULL => n.imageId \in Ids(images)

C7_AllOrNothing ==
  \A i \in 1..nextId["image"] :
    (\/ \E s \in imageShares : s.imageId = i /\ s \notin imageShares'
     \/ \E n \in notifications : n.imageId = i /\ n \notin notifications'
     \/ \E img \in images : img.id = i /\ img \notin images')
      => /\ getImage(i)' = {}
         /\ \A s \in imageShares' : s.imageId # i
         /\ \A n \in notifications' : n.imageId # i

C7_DeleteImageAtomic == [](C7_NoOrphans) /\ [][C7_AllOrNothing]_vars

\* ------------------------------------------------------- specifications

\* The arrays of at most n entries over S.
SeqsUpTo(S, n) == UNION {[1..k -> S] : k \in 0..n}

DoCreateGroup ==
  \E caller \in Users : CreateGroup(caller) /\ UNCHANGED inflight

\* Under Spec the group requests are those that change group_members: a
\* member adds a user who is not one, and a member or the creator removes a
\* member.  A refused group request changes no table.
DoAddGroupMember ==
  \E caller \in Users, groupId \in Ids(groups), userId \in Users :
    /\ isGroupMember(groupId, caller)
    /\ ~isGroupMember(groupId, userId)
    /\ AddGroupMember(caller, groupId, userId)
    /\ UNCHANGED inflight

DoRemoveGroupMember ==
  \E caller \in Users, groupId \in Ids(groups), userId \in Users :
    /\ isGroupMember(groupId, userId)
    /\ userId = caller \/ \E g \in getGroup(groupId) : g.createdBy = caller
    /\ RemoveGroupMember(caller, groupId, userId)
    /\ UNCHANGED inflight

\* The userIds and groupIds a request may carry: ids of rows and ids that
\* name no row, an id any number of times.
DoUploadImage ==
  \/ \E caller \in Users,
        t \in {t \in SeqsUpTo(Users \cup {NoSuchUser, NaN}, MaxShareTargets)
                     \X SeqsUpTo((1..nextId["group"]) \cup {NaN},
                                 MaxShareTargets) :
                 Len(t[1]) + Len(t[2]) <= MaxShareTargets} :
       UploadImage(caller, TRUE, t[1], t[2]) /\ UNCHANGED inflight
  \/ \E caller \in Users :
       UploadImage(caller, FALSE, <<>>, <<>>) /\ UNCHANGED inflight

DoGetImage ==
  \E caller \in Users, imageId \in 1..nextId["image"] :
    GetImage(caller, imageId) /\ UNCHANGED inflight

DoDeleteImage ==
  \E caller \in Users, imageId \in 1..nextId["image"] :
    DeleteImage(caller, imageId) /\ UNCHANGED inflight

Next ==
  \/ DoCreateGroup
  \/ DoAddGroupMember
  \/ DoRemoveGroupMember
  \/ DoUploadImage
  \/ DoGetImage
  \/ DoDeleteImage

Spec == Init /\ [][Next]_vars

DoGetFriends ==
  \E caller \in Users : GetFriends(caller) /\ UNCHANGED inflight

DoGetFriendRequests ==
  \E caller \in Users : GetFriendRequests(caller) /\ UNCHANGED inflight

NextFriends ==
  \/ DoSendFriendRequest
  \/ DoRespondFriendRequest
  \/ DoGetFriends
  \/ DoGetFriendRequests

SpecFriends == Init /\ [][NextFriends]_vars

\* Requests served while a DELETE /api/images/:id is between two awaits.
NextIL ==
  \/ DoCreateGroup
  \/ DoUploadImage
  \/ DoGetImage
  \/ \E caller \in Users, imageId \in 1..nextId["image"] :
       DeleteImage_getImage(caller, imageId)
  \/ DeleteImage_check
  \/ DeleteImage_notifications
  \/ DeleteImage_image

SpecIL == Init /\ [][NextIL]_vars


\* The group requests, POST /api/groups by await, with any caller, group id
\* and user id.
DoAddAnyGroupMember ==
  \E caller \in Users, groupId \in 1..nextId["group"],
     userId \in Users \cup {NoSuchUser} :
    AddGroupMember(caller, groupId, userId) /\ UNCHANGED inflight

DoRemoveAnyGroupMember ==
  \E caller \in Users, groupId \in 1..nextId["group"],
     userId \in Users \cup {NoSuchUser} :
    RemoveGroupMember(caller, groupId, userId) /\ UNCHANGED inflight

DoGetGroup ==
  \E caller \in Users, groupId \in 1..nextId["group"] :
    GetGroup(caller, groupId) /\ UNCHANGED inflight

DoGetGroupImages ==
  \E caller \in Users, groupId \in 1..nextId["group"] :
    GetGroupImages(caller, groupId) /\ UNCHANGED inflight

NextGroups ==
  \/ \E caller \in Users : CreateGroup_createGroup(caller)
  \/ DoGetGroup
  \/ DoGetGroupImages
  \/ CreateGroup_addGroupMember
  \/ DoAddAnyGroupMember
  \/ DoRemoveAnyGroupMember

SpecGroups == Init /\ [][NextGroups]_vars

\* The notification requests, with the friend requests that create the rows.
DoMarkNotificationAsRead ==
  \E caller \in Users, notificationId \in 1..nextId["notification"] :
    MarkNotificationAsRead(caller, notificationId) /\ UNCHANGED inflight

DoMarkAllNotificationsAsRead ==
  \E caller \in Users :
    MarkAllNotificationsAsRead(caller) /\ UNCHANGED inflight

NextNotifications ==
  \/ DoSendFriendRequest
  \/ DoRespondFriendRequest
  \/ DoMarkNotificationAsRead
  \/ DoMarkAllNotificationsAsRead

SpecNotifications == Init /\ [][NextNotifications]_vars

\* The stores of dated images.
InitDates ==
  /\ impl \in {"db", "mem"}
  /\ \E rows \in
        UNION {{[id \in 1..n |-> DatedImageRow(f[id][1], id, f[id][2])] :
                  f \in [1..n -> Users \X UploadInstants]} :
                 n \in 0..MaxDateImages} :
        /\ images = Range(rows)
        /\ files = Ids(Range(rows))
        /\ nextId = [t \in Tables |->
                       IF t = "image" THEN Len(rows) + 1 ELSE 1]
  /\ friends = {}
  /\ groups = {}
  /\ groupMembers = {}
  /\ imageShares = {}
  /\ notifications = {}
  /\ res = [op |-> "none", caller |-> NULL, id |-> NULL, user |-> NULL,
            arg |-> <<>>, status |-> 0]
  /\ inflight = Idle

DoGetImageDates ==
  \E caller \in Users : GetImageDates(caller) /\ UNCHANGED inflight

DoGetImagesByDate ==
  \E caller \in Users, ym \in TimelineMonths :
    GetImagesByDate(caller, ym[1], ym[2]) /\ UNCHANGED inflight

NextDates == DoGetImageDates \/ DoGetImagesByDate

SpecDates == InitDates /\ [][NextDates]_vars

\* Every route of registerRoutes behind isAuthenticated, called without a
\* session and with the session of user 1; the users a request names are
\* user 1 and user 2.
Sessions == {NULL, 1}

Named == {1, 2}

Route_uploadImage ==
  \E session \in Sessions, hasFile \in BOOLEAN :
    /\ isAuthenticated("uploadImage", session,
                       UploadImage(session, hasFile, <<>>, <<>>))
    /\ UNCHANGED inflight

Route_getImages ==
  \E session \in Sessions :
    /\ isAuthenticated("getImages", session,
                       ListOwn("getImages", session, "images"))
    /\ UNCHANGED inflight

Route_getImagesByDate ==
  \E session \in Sessions :
    /\ isAuthenticated("getImagesByDate", session,
                       ListOwn("getImagesByDate", session, "images"))
    /\ UNCHANGED inflight

Route_getImageDates ==
  \E session \in Sessions :
    /\ isAuthenticated("getImageDates", session, GetImageDates(session))
    /\ UNCHANGED inflight

Route_getImage ==
  \E session \in Sessions, imageId \in 1..nextId["image"] :
    /\ isAuthenticated("getImage", session, GetImage(session, imageId))
    /\ UNCHANGED inflight

Route_deleteImage ==
  \E session \in Sessions, imageId \in 1..nextId["image"] :
    /\ isAuthenticated("deleteImage", session, DeleteImage(session, imageId))
    /\ UNCHANGED inflight

Route_getFriends ==
  \E session \in Sessions :
    /\ isAuthenticated("getFriends", session, GetFriends(session))
    /\ UNCHANGED inflight

Route_getFriendRequests ==
  \E session \in Sessions :
    /\ isAuthenticated("getFriendRequests", session,
                       GetFriendRequests(session))
    /\ UNCHANGED inflight

Route_sendFriendRequest ==
  \E session \in Sessions, addresseeId \in Named :
    /\ isAuthenticated("sendFriendRequest", session,
                       SendFriendRequest(session, addresseeId))
    /\ UNCHANGED inflight

Route_respondFriendRequest ==
  \E session \in Sessions, requestId \in Ids(friends),
     status \in {"accepted", "declined"} :
    /\ isAuthenticated("respondFriendRequest", session,
                       RespondFriendRequest(session, requestId, status))
    /\ UNCHANGED inflight

Route_searchUsers ==
  \E session \in Sessions, hasQuery \in BOOLEAN :
    /\ isAuthenticated("searchUsers", session, SearchUsers(session, hasQuery))
    /\ UNCHANGED inflight

Route_getGroups ==
  \E session \in Sessions :
    /\ isAuthenticated("getGroups", session,
                       ListOwn("getGroups", session, "groups"))
    /\ UNCHANGED inflight

Route_createGroup ==
  \E session \in Sessions :
    /\ isAuthenticated("createGroup", session, CreateGroup(session))
    /\ UNCHANGED inflight

Route_getGroup ==
  \E session \in Sessions, groupId \in Ids(groups) :
    /\ isAuthenticated("getGroup", session, GetGroup(session, groupId))
    /\ UNCHANGED inflight

Route_addGroupMember ==
  \E session \in Sessions, groupId \in Ids(groups),
     userId \in Named :
    /\ isAuthenticated("addGroupMember", session,
                       AddGroupMember(session, groupId, userId))
    /\ UNCHANGED inflight

Route_getGroupImages ==
  \E session \in Sessions, groupId \in Ids(groups) :
    /\ isAuthenticated("getGroupImages", session,
                       GetGroupImages(session, groupId))
    /\ UNCHANGED inflight

Route_removeGroupMember ==
  \E session \in Sessions, groupId \in Ids(groups),
     userId \in Named :
    /\ isAuthenticated("removeGroupMember", session,
                       RemoveGroupMember(session, groupId, userId))
    /\ UNCHANGED inflight

Route_getNotifications ==
  \E session \in Sessions :
    /\ isAuthenticated("getNotifications", session,
                       ListOwn("getNotifications", session, "notifications"))
    /\ UNCHANGED inflight

Route_markNotificationAsRead ==
  \E session \in Sessions, notificationId \in Ids(notifications) :
    /\ isAuthenticated("markNotificationAsRead", session,
                       MarkNotificationAsRead(session, notificationId))
    /\ UNCHANGED inflight

Route_markAllNotificationsAsRead ==
  \E session \in Sessions :
    /\ isAuthenticated("markAllNotificationsAsRead", session,
                       MarkAllNotificationsAsRead(session))
    /\ UNCHANGED inflight

NextRoutes ==
  \/ Route_uploadImage
  \/ Route_getImages
  \/ Route_getImagesByDate
  \/ Route_getImageDates
  \/ Route_getImage
  \/ Route_deleteImage
  \/ Route_getFriends
  \/ Route_getFriendRequests
  \/ Route_sendFriendRequest
  \/ Route_respondFriendRequest
  \/ Route_searchUsers
  \/ Route_getGroups
  \/ Route_createGroup
  \/ Route_getGroup
  \/ Route_addGroupMember
  \/ Route_getGroupImages
  \/ Route_removeGroupMember
  \/ Route_getNotifications
  \/ Route_markNotificationAsRead
  \/ Route_markAllNotificationsAsRead

SpecRoutes == Init /\ [][NextRoutes]_vars

\* The writes that notify, by await and one request at a time, each
\* createNotification free to throw under DatabaseStorage; the groups to add
\* members to and the uploads shared with one user are served whole.  The
\* requests are those that pass the checks of their handler and so reach
\* their write.
SendFriendRequest_begin ==
  \E caller \in Named, addresseeId \in Named :
    /\ ~IsSelfRequest(caller, addresseeId)
    /\ ~FriendRequestExists(caller, addresseeId)
    /\ SendFriendRequest_getFriendship(caller, addresseeId)

RespondFriendRequest_begin ==
  \E caller \in Named, request \in friends,
     status \in {"accepted", "declined"} :
    /\ IsAddressee(request, caller)
    /\ RespondFriendRequest_getFriendRequest(caller, request.id, status)

AddGroupMember_begin ==
  \E caller \in Named, groupId \in Ids(groups), userId \in Named :
    /\ isGroupMember(groupId, caller)
    /\ ~isGroupMember(groupId, userId)
    /\ AddGroupMember_isMember(caller, groupId, userId)

DoCreateGroup_idle ==
  /\ inflight.pc = "idle"
  /\ \E caller \in Named : CreateGroup(caller) /\ UNCHANGED inflight

DoUploadForUser ==
  /\ inflight.pc = "idle"
  /\ \E caller \in Named, userIds \in SeqsUpTo(Named \cup {NaN}, 1) :
       UploadImage(caller, TRUE, userIds, <<>>) /\ UNCHANGED inflight

NextBestEffort ==
  \/ SendFriendRequest_begin
  \/ SendFriendRequest_createFriend
  \/ SendFriendRequest_createNotification
  \/ RespondFriendRequest_begin
  \/ RespondFriendRequest_updateFriendRequest
  \/ RespondFriendRequest_createNotification
  \/ DoCreateGroup_idle
  \/ AddGroupMember_begin
  \/ AddGroupMember_isAlreadyMember
  \/ AddGroupMember_addGroupMember
  \/ AddGroupMember_getGroup
  \/ AddGroupMember_createNotification
  \/ DoUploadForUser

SpecBestEffort == Init /\ [][NextBestEffort]_vars

\* POST /api/friends/request by await, with the friend requests served
\* whole while it is between two awaits.
SendFriendRequest_beginAny ==
  \E caller \in Users, addresseeId \in Users \cup {NoSuchUser} :
    SendFriendRequest_getFriendship(caller, addresseeId)

NextFriendsIL ==
  \/ SendFriendRequest_beginAny
  \/ SendFriendRequest_createFriend
  \/ SendFriendRequest_createNotification
  \/ DoSendFriendRequest

SpecFriendsIL == Init /\ [][NextFriendsIL]_vars

\* POST /api/groups/:id/members by await, with the group requests that
\* change group_members served whole while it is between two awaits.
AddGroupMember_beginAny ==
  \E caller \in Users, groupId \in 1..nextId["group"], userId \in Users :
    AddGroupMember_isMember(caller, groupId, userId)

NextMembersIL ==
  \/ DoCreateGroup
  \/ AddGroupMember_beginAny
  \/ AddGroupMember_isAlreadyMember
  \/ AddGroupMember_addGroupMember
  \/ AddGroupMember_getGroup
  \/ AddGroupMember_createNotification
  \/ DoAddGroupMember
  \/ DoRemoveGroupMember

SpecMembersIL == Init /\ [][NextMembersIL]_vars

\* The group requests that change group_members, uploads shared with at
\* most one user and one group, and the reads that membership gates.
DoUploadForGroup ==
  \E caller \in Users, userIds \in SeqsUpTo(Users, 1),
     groupIds \in SeqsUpTo(Ids(groups), 1) :
    UploadImage(caller, TRUE, userIds, groupIds) /\ UNCHANGED inflight

NextRevoke ==
  \/ DoCreateGroup
  \/ DoAddGroupMember
  \/ DoRemoveGroupMember
  \/ DoUploadForGroup
  \/ DoGetImage
  \/ DoGetGroupImages

SpecRevoke == Init /\ [][NextRevoke]_vars

\* The notification dropdown: friend requests are sent, and answered only
\* by a click on Accept or Decline of a notification.
DoHandleFriendRequest ==
  \E caller \in Users, status \in {"accepted", "declined"} :
    \E notification \in FriendRequestActions(caller) :
      handleFriendRequest(caller, notification, status) /\ UNCHANGED inflight

NextDropdown ==
  \/ DoSendFriendRequest
  \/ DoHandleFriendRequest

SpecDropdown == Init /\ [][NextDropdown]_vars

=============================================================================
